---- MODULE Spec2Model ----
(***************************************************************************)
(* The daily affirmation gate of main.py: the user_verifications and       *)
(* mindful_channels tables, the read-history overwrite of each member in   *)
(* each channel, the typing handler that issues a challenge, the direct    *)
(* message handler that verifies a reply, and the polling reset task.      *)
(*                                                                         *)
(* Every handler is one action.  Each remote call a handler makes (a store *)
(* query, a permission edit, a direct message) has the outcomes the code   *)
(* distinguishes with its except clauses; the action draws them with \E.   *)
(*                                                                         *)
(* Spec runs every handler in one step.  LockSpec calls the lock helpers   *)
(* on their own, ClearSpec the bulk clear, AdminSpec the admin commands.   *)
(* RaceSpec, ReplySpec and ListSpec run on_typing, on_message and          *)
(* list_mindful_channels one await at a time, interleaved with the rest.   *)
(***************************************************************************)
EXTENDS Integers, Sequences, FiniteSets, TLC

\* ------------------------------------------------------------------ bounds

\* The clock stops at 00:00 UTC of this day.
MaxDay == 3

\* Longest direct-message text a user sends.
MaxLen == 2

\* ------------------------------------------------------- program constants

TARGET_RESET_HOUR == 9

TARGET_RESET_MINUTE == 0

\* America/New_York is four hours behind UTC in summer time.
NY_UTC_OFFSET_HOURS == 4

\* date.min, the value last_reset_run_date starts with.
DATE_MIN == 0

COMMAND_PREFIX == "!"

\* --------------------------------------------------------------- the world

Users == {"u1", "u2"}

\* Accounts with user.bot set; they have no row and no overwrite.
Bots == {"b1"}

Guilds == {"g1", "g2"}

\* c1 and c3 are text channels of g1, c2 of g2; c3 is never made a mindful
\* channel.
Channels == {"c1", "c2", "c3"}

\* channel.guild
GuildOf(channel) == IF channel = "c2" THEN "g2" ELSE "g1"

\* guild.get_member(user_id): the users are in both guilds, the bot account in
\* g1 only.
get_member(guild, user) == user \in Users \/ guild = "g1"

\* The members who hold the MindfulTrader role of the guild: every member of g1,
\* u1 alone in g2 (u2 is a member of g2 without the role).
get_mindful_role(guild) == {u \in Users \cup Bots : u = "u1" \/ guild = "g1"}

\* The characters of a message: one letter in both cases, the blank, the prefix.
Chars == {"I", "i", " ", COMMAND_PREFIX}

\* Two phrases stand for the ten of the list.
AFFIRMATIONS == {<<"I">>, <<"I", "i">>}

\* SQL NULL in the pending_affirmation column (no text is equal to it).
NULL == <<"NULL">>

\* Every text of at most MaxLen characters.
Replies == UNION {[1..n -> Chars] : n \in 0..MaxLen}

\* ------------------------------------------------------------------- text

\* str.lower on one character
LowerChar(ch) == IF ch = "I" THEN "i" ELSE ch

\* str.lower
lower(s) == [i \in 1..Len(s) |-> LowerChar(s[i])]

RECURSIVE lstrip(_)
lstrip(s) == IF s # <<>> /\ Head(s) = " " THEN lstrip(Tail(s)) ELSE s

RECURSIVE rstrip(_)
rstrip(s) == IF s # <<>> /\ s[Len(s)] = " " THEN rstrip(SubSeq(s, 1, Len(s) - 1)) ELSE s

\* str.strip
strip(s) == rstrip(lstrip(s))

\* str.startswith
startswith(s, prefix) == s # <<>> /\ s[1] = prefix

\* The comparison without the strip of the reply.
matches_without_strip(content, pending_affirmation) ==
    lower(content) = lower(pending_affirmation)

\* The comparison as a prefix test on the stored phrase.
matches_on_prefix(content, pending_affirmation) ==
    LET reply == lower(strip(content))
        phrase == lower(pending_affirmation)
    IN  /\ Len(reply) >= Len(phrase)
        /\ SubSeq(reply, 1, Len(phrase)) = phrase

\* The comparison of on_message: the reply against the stored phrase.
affirmation_matches(content, pending_affirmation) ==
    lower(strip(content)) = lower(pending_affirmation)

\* ------------------------------------------------------------------ state

VARIABLES
    now,                  \* the wall clock, in hours since the epoch (UTC)
    user_verifications,   \* the table: user_id -> [verified_date, pending_affirmation]
    mindful_channels,     \* the table: set of <<guild_id, channel_id>>
    text_channels,        \* the channels that exist on the platform
    read_message_history, \* the overwrite of each user in each channel
    send_messages,        \* another capability of the same member overwrite
    manage_roles,         \* whether the bot may edit overwrites in each channel
    last_reset_run_date,  \* the global of daily_reset_task
    runs_today,           \* runs of the bulk clear that succeeded this local day
    completed_on,         \* per user, the New York date the verified row was earned
    issued_on,            \* per user, the date of the issuance the pending row is from
    tasks,                \* the on_typing handlers in progress (RaceSpec)
    last                  \* what the handler that ran last did and returned

vars == <<now, user_verifications, mindful_channels, text_channels,
          read_message_history,
          send_messages, manage_roles, last_reset_run_date, runs_today,
          completed_on, issued_on, tasks, last>>

\* ------------------------------------------------------------------ clock

\* datetime.now(timezone.utc).date()
UtcToday == now \div 24

\* datetime.now(target_tz), in hours
NowLocalHours == now - NY_UTC_OFFSET_HOURS

\* now_local.date()
TodayLocal == NowLocalHours \div 24

\* now_local >= target_time_today, both on today_local
PastTargetTime ==
    (NowLocalHours % 24) * 60 >= TARGET_RESET_HOUR * 60 + TARGET_RESET_MINUTE

\* The instants at which a date or the reset condition changes: UTC midnight,
\* New York midnight and the reset time in New York.
IsBoundary(t) ==
    \/ t % 24 = 0
    \/ (t - NY_UTC_OFFSET_HOURS) % 24 = 0
    \/ (t - NY_UTC_OFFSET_HOURS) % 24 = TARGET_RESET_HOUR

NextInstant(t) == CHOOSE n \in (t + 1)..(t + 24) :
    IsBoundary(n) /\ \A m \in (t + 1)..(n - 1) : ~IsBoundary(m)

\* -------------------------------------------------------------- outcomes

\* A store call runs or raises.
DbOutcomes == {"ok", "error"}

\* channel.set_permissions: done or failed.  Forbidden is what the platform
\* answers when the bot lacks manage_roles; a transport error stands for the
\* other errors (NotFound, HTTPException, Exception), which the lock helpers
\* swallow in the same way.
PermOutcomes(channel) ==
    IF manage_roles[channel] THEN {"ok", "http_error"} ELSE {"forbidden"}

\* user.create_dm and dm_channel.send: delivered, Forbidden, or another error.
DmOutcomes == {"ok", "forbidden", "error"}

\* bot.fetch_guilds
FetchOutcomes == {"ok", "error"}

\* ------------------------------------------------------------------ store

\* The query without its WHERE clause on the table's rows: every channel of the
\* guild is returned.
get_every_channel_db(guild_id, db) ==
    IF db = "ok" THEN {c \in Channels : GuildOf(c) = guild_id}
    ELSE {}

\* get_mindful_channels_db: the channel ids of the guild, [] when the query raises.
get_mindful_channels_db(guild_id, db) ==
    IF db = "ok" THEN {c \in Channels : <<guild_id, c>> \in mindful_channels}
    ELSE {}

\* The INSERT without its ON CONFLICT clause: a row that is there already makes
\* the statement raise.
add_channel_without_on_conflict(guild_id, channel_id, db) ==
    IF db = "ok" /\ <<guild_id, channel_id>> \notin mindful_channels
    THEN [ok |-> TRUE, rows |-> mindful_channels \cup {<<guild_id, channel_id>>}]
    ELSE [ok |-> FALSE, rows |-> mindful_channels]

\* add_mindful_channel_db: INSERT ... ON CONFLICT (guild_id, channel_id) DO
\* NOTHING under the primary key (guild_id, channel_id); False when it raises.
add_mindful_channel_db(guild_id, channel_id, db) ==
    IF db = "ok"
    THEN [ok |-> TRUE, rows |-> mindful_channels \cup {<<guild_id, channel_id>>}]
    ELSE [ok |-> FALSE, rows |-> mindful_channels]

\* The DELETE keyed by the guild alone.
remove_every_channel_db(guild_id, channel_id, db) ==
    IF db = "ok"
    THEN [ok |-> TRUE, rows |-> {r \in mindful_channels : r[1] # guild_id}]
    ELSE [ok |-> FALSE, rows |-> mindful_channels]

\* remove_mindful_channel_db: DELETE ... WHERE guild_id = $1 AND channel_id = $2;
\* False when it raises.
remove_mindful_channel_db(guild_id, channel_id, db) ==
    IF db = "ok"
    THEN [ok |-> TRUE, rows |-> mindful_channels \ {<<guild_id, channel_id>>}]
    ELSE [ok |-> FALSE, rows |-> mindful_channels]

\* The resolver with the date test of the pending case left out.
status_ignoring_pending_date(rows, user_id, db) ==
    IF db # "ok" \/ user_id \notin DOMAIN rows
    THEN [status |-> "none", pending |-> NULL]
    ELSE IF rows[user_id].pending_affirmation # NULL
    THEN [status |-> "pending", pending |-> rows[user_id].pending_affirmation]
    ELSE IF rows[user_id].verified_date = UtcToday
    THEN [status |-> "verified", pending |-> NULL]
    ELSE [status |-> "none", pending |-> NULL]

\* get_user_verification_status_db: (status, pending text) from the user's row.
get_user_verification_status_db(rows, user_id, db) ==
    IF db # "ok" THEN [status |-> "none", pending |-> NULL]
    ELSE IF user_id \in DOMAIN rows THEN
        LET db_date == rows[user_id].verified_date
            pending_text == rows[user_id].pending_affirmation
        IN  IF db_date = UtcToday /\ pending_text = NULL
                THEN [status |-> "verified", pending |-> NULL]
            ELSE IF db_date = UtcToday /\ pending_text # NULL
                THEN [status |-> "pending", pending |-> pending_text]
            ELSE IF db_date # UtcToday /\ pending_text # NULL
                THEN [status |-> "none", pending |-> NULL]
            ELSE [status |-> "none", pending |-> NULL]
    ELSE [status |-> "none", pending |-> NULL]

\* The upsert whose ON CONFLICT branch sets the phrase and keeps the stored date.
set_pending_keeping_date(rows, user_id, affirmation, db) ==
    IF db # "ok" THEN [ok |-> FALSE, rows |-> rows]
    ELSE [ok |-> TRUE,
          rows |-> [u \in DOMAIN rows \cup {user_id} |->
                       IF u # user_id THEN rows[u]
                       ELSE IF u \in DOMAIN rows
                       THEN [rows[u] EXCEPT !.pending_affirmation = affirmation]
                       ELSE [verified_date |-> UtcToday,
                             pending_affirmation |-> affirmation]]]

\* The upsert that reports failure after the row was written.
set_pending_written_despite_error(rows, user_id, affirmation, db) ==
    [ok |-> db = "ok",
     rows |-> [u \in DOMAIN rows \cup {user_id} |->
                  IF u = user_id
                  THEN [verified_date |-> UtcToday,
                        pending_affirmation |-> affirmation]
                  ELSE rows[u]]]

\* set_pending_verification_db: upsert (user_id, today, affirmation).
set_pending_verification_db(rows, user_id, affirmation, db) ==
    IF db # "ok" THEN [ok |-> FALSE, rows |-> rows]
    ELSE [ok |-> TRUE,
          rows |-> [u \in DOMAIN rows \cup {user_id} |->
                       IF u = user_id
                       THEN [verified_date |-> UtcToday,
                             pending_affirmation |-> affirmation]
                       ELSE rows[u]]]

\* complete_verification_db: UPDATE ... WHERE user_id; True unless the query raises.
complete_verification_db(rows, user_id, db) ==
    IF db # "ok" THEN [ok |-> FALSE, rows |-> rows]
    ELSE [ok |-> TRUE,
          rows |-> [u \in DOMAIN rows |->
                       IF u = user_id
                       THEN [verified_date |-> UtcToday,
                             pending_affirmation |-> NULL]
                       ELSE rows[u]]]

\* The DELETE with the date of the scheduler in place of the UTC date.
clear_by_local_date(rows, db) ==
    IF db # "ok" THEN [count |-> 0, rows |-> rows]
    ELSE LET kept == {u \in DOMAIN rows : rows[u].verified_date = TodayLocal}
         IN  [count |-> Cardinality(DOMAIN rows \ kept),
              rows |-> [u \in kept |-> rows[u]]]

\* clear_stale_verifications_db: DELETE WHERE verified_date != today; the count
\* deleted, 0 when the query raises.
clear_stale_verifications_db(rows, db) ==
    IF db # "ok" THEN [count |-> 0, rows |-> rows]
    ELSE LET kept == {u \in DOMAIN rows : rows[u].verified_date = UtcToday}
         IN  [count |-> Cardinality(DOMAIN rows \ kept),
              rows |-> [u \in kept |-> rows[u]]]

\* A DELETE that matches no row.
delete_no_row(rows, user_id) == rows

\* DELETE FROM user_verifications WHERE user_id = $1 (the cleanup of on_typing)
delete_user_verification(rows, user_id) ==
    [u \in DOMAIN rows \ {user_id} |-> rows[u]]

\* ------------------------------------------------------------------ locks

\* The lock written as a reset of the overwrite.
apply_lock_as_reset(overwrites, user, channel, outcome) ==
    IF outcome = "ok"
    THEN [overwrites EXCEPT ![user][channel] = "inherit"]
    ELSE overwrites

\* apply_read_lock: deny read_message_history; every error is swallowed.
apply_read_lock(overwrites, user, channel, outcome) ==
    IF outcome = "ok"
    THEN [overwrites EXCEPT ![user][channel] = "deny"]
    ELSE overwrites

\* channel.set_permissions(user, read_message_history=False): the keyword form
\* sends an overwrite made of the named capability alone, which replaces the
\* member's overwrite in the channel; the other capabilities are unset.
apply_read_lock_others(others, user, channel, outcome) ==
    IF outcome = "ok"
    THEN [others EXCEPT ![user][channel] = "inherit"]
    ELSE others

\* The unlock with its test inverted: it acts only where no deny is set.
remove_lock_unless_denied(overwrites, user, channel, outcome) ==
    IF overwrites[user][channel] # "deny" /\ outcome = "ok"
    THEN [overwrites EXCEPT ![user][channel] = "inherit"]
    ELSE overwrites

\* remove_read_lock: reset the overwrite only when it is an explicit deny.
remove_read_lock(overwrites, user, channel, outcome) ==
    IF overwrites[user][channel] = "deny" /\ outcome = "ok"
    THEN [overwrites EXCEPT ![user][channel] = "inherit"]
    ELSE overwrites

\* The edit made without the test of the current overwrite.
remove_lock_others_untested(others, overwrites, user, channel, outcome) ==
    IF outcome = "ok"
    THEN [others EXCEPT ![user][channel] = "inherit"]
    ELSE others

\* channel.set_permissions(user, read_message_history=None), made only when
\* the deny is set: the member's other capabilities in the channel after it.
remove_read_lock_others(others, overwrites, user, channel, outcome) ==
    IF overwrites[user][channel] = "deny" /\ outcome = "ok"
    THEN [others EXCEPT ![user][channel] = "inherit"]
    ELSE others

\* ------------------------------------------------------------ observation

\* The record of a handler run: its inputs, what its calls returned and what it
\* sent.  Idle between two handler runs.
Idle ==
    [op |-> "idle", user |-> "-", channel |-> "-",
     content |-> <<>>,      \* the text of the direct message
     status |-> "-",        \* the status the handler resolved
     expected |-> NULL,     \* the pending text it resolved
     lock |-> "-",          \* apply_read_lock: "ok" or "failed"
     persisted |-> FALSE,   \* set_pending / complete_verification returned True
     dm |-> "-",            \* the challenge message: "ok", "forbidden", "error"
     cleanup |-> "-",       \* the DELETE after a failed message: "ok" or "error"
     notice |-> "-",        \* the notice in the channel: "tried" when it was sent
     matched |-> FALSE,     \* the reply equalled the pending text
     sent |-> "-",          \* the answer to a reply: "confirm", "retry", "error"
     sent_text |-> NULL,    \* the phrase quoted in that answer
     unlock_failed |-> {},  \* channels whose unlock was cut short by a failed call
     fired |-> FALSE,       \* the reset condition held
     cleared |-> 0,         \* what clear_stale_verifications_db returned
     db |-> "-",            \* the outcome of the bulk DELETE
     raised |-> FALSE,      \* an exception left the call
     guild |-> "-",         \* ctx.guild of an admin command
     listed |-> {},         \* the channel ids the command read
     valid |-> {},          \* those of them it resolved to a channel
     unlocked |-> {}]       \* the members whose lock the command removed

OkOrFailed(outcome) == IF outcome = "ok" THEN "ok" ELSE "failed"

\* The handlers of on_typing that RaceSpec runs step by step.
Handlers == {"h1", "h2"}

\* A handler that has not started: its position, its arguments, what it read
\* and what its calls returned.
NoTask ==
    [pc |-> "idle", user |-> "-", channel |-> "-", status |-> "-",
     lock |-> "-", phrase |-> NULL, persisted |-> FALSE, dm |-> "-",
     cleanup |-> "-"]

\* The on_message handler that ReplySpec runs step by step, before it starts:
\* its position, the message, what it read, the UTC date of that read, and what
\* its calls returned.
NoReply ==
    [pc |-> "idle", user |-> "-", content |-> <<>>, status |-> "-",
     expected |-> NULL, resolved_on |-> 0, persisted |-> FALSE, sent |-> "-",
     unlock_failed |-> {}]

\* The list_mindful_channels command that ListSpec runs step by step, before it
\* starts: its position, its guild, the ids it read, those it resolved, the rows
\* its DELETE removed, and whether an exception ended it.
NoList ==
    [pc |-> "idle", guild |-> "-", channel_ids |-> {}, valid |-> {},
     deleted |-> {}, raised |-> FALSE]

\* No handler in progress; written is the phrase of the latest upsert.
NoTasks ==
    [run |-> [h \in Handlers |-> NoTask], written |-> NULL, reply |-> NoReply,
     list |-> NoList]

\* ---------------------------------------------------------------- on_typing

\* Step 3 of the 'none' branch of on_typing: the pending row, the direct
\* message, and the DELETE of the row when the message could not be sent.
SendChallenge(user, seen) ==
    \E affirmation_text \in AFFIRMATIONS, dbWrite \in DbOutcomes :
        LET w == set_pending_verification_db(user_verifications, user,
                                             affirmation_text, dbWrite)
        IN  IF w.ok
            THEN \E dm \in DmOutcomes :
                   IF dm = "ok"
                   THEN /\ user_verifications' = w.rows
                        /\ completed_on' = [completed_on EXCEPT ![user] = 0]
                        /\ issued_on' = [issued_on EXCEPT ![user] = UtcToday]
                        /\ last' = [seen EXCEPT !.persisted = TRUE, !.dm = dm]
                   ELSE \E dbDelete \in DbOutcomes :
                          /\ user_verifications' =
                                IF dbDelete = "ok"
                                THEN delete_user_verification(w.rows, user)
                                ELSE w.rows
                          /\ completed_on' = [completed_on EXCEPT ![user] = 0]
                          /\ issued_on' = [issued_on EXCEPT ![user] =
                                IF dbDelete = "ok" THEN 0 ELSE UtcToday]
                          /\ last' = [seen EXCEPT !.persisted = TRUE, !.dm = dm,
                                                  !.cleanup = dbDelete]
            ELSE /\ user_verifications' = w.rows
                 /\ UNCHANGED <<completed_on, issued_on>>
                 /\ last' = seen

\* The 'none' branch of on_typing: lock, channel notice, then the challenge.
IssueChallenge(channel, user, seen) ==
    \E lockOut \in PermOutcomes(channel) :
        /\ read_message_history' =
               apply_read_lock(read_message_history, user, channel, lockOut)
        /\ send_messages' =
               apply_read_lock_others(send_messages, user, channel, lockOut)
        /\ SendChallenge(user, [seen EXCEPT !.status = "none",
                                            !.lock = OkOrFailed(lockOut),
                                            !.notice = "tried"])

\* The 'pending' branch of on_typing: the lock again, no message.
ReapplyLock(channel, user, seen) ==
    \E lockOut \in PermOutcomes(channel) :
        /\ read_message_history' =
               apply_read_lock(read_message_history, user, channel, lockOut)
        /\ send_messages' =
               apply_read_lock_others(send_messages, user, channel, lockOut)
        /\ last' = [seen EXCEPT !.lock = OkOrFailed(lockOut)]
        /\ UNCHANGED <<user_verifications, completed_on, issued_on>>

\* on_typing(channel, user, when)
on_typing(channel, user) ==
    /\ last = Idle
    /\ get_member(GuildOf(channel), user)
    /\ UNCHANGED <<now, mindful_channels, text_channels, manage_roles, last_reset_run_date,
                   runs_today, tasks>>
    /\ LET guild_id == GuildOf(channel)
           seen == [Idle EXCEPT !.op = "on_typing", !.user = user,
                                !.channel = channel]
       IN  \E channels_list \in
                {get_mindful_channels_db(guild_id, db) : db \in DbOutcomes} :
             IF \/ user \in Bots
                \/ channel \notin channels_list
                \/ user \notin get_mindful_role(guild_id)
             THEN /\ last' = seen
                  /\ UNCHANGED <<user_verifications, read_message_history, send_messages,
                                 completed_on, issued_on>>
             ELSE \E st \in {get_user_verification_status_db(
                                 user_verifications, user, db) : db \in DbOutcomes} :
                    IF st.status = "none"
                    THEN IssueChallenge(channel, user, seen)
                    ELSE IF st.status = "pending"
                    THEN ReapplyLock(channel, user,
                             [seen EXCEPT !.status = "pending",
                                          !.expected = st.pending])
                    ELSE /\ last' = [seen EXCEPT !.status = "verified"]
                         /\ UNCHANGED <<user_verifications, read_message_history,
                                        send_messages,
                                        completed_on, issued_on>>

\* --------------------------------------------------------------- on_message

\* The loop of on_message over the guilds and their mindful channels, for one
\* channel: remove_read_lock is called when the guild listing worked, the user
\* is a member, the channel is in the list read for its guild and the bot has
\* manage_roles there.
UnlockChannel(overwrites, user_id, channel, fetch, dbList, permOut) ==
    IF /\ fetch = "ok"
       /\ get_member(GuildOf(channel), user_id)
       /\ channel \in get_mindful_channels_db(GuildOf(channel), dbList)
       /\ manage_roles[channel]
    THEN remove_read_lock(overwrites, user_id, channel, permOut)
    ELSE overwrites

\* The same loop, for the member's other capabilities in the channel.
UnlockChannelOthers(others, overwrites, user_id, channel, fetch, dbList, permOut) ==
    IF /\ fetch = "ok"
       /\ get_member(GuildOf(channel), user_id)
       /\ channel \in get_mindful_channels_db(GuildOf(channel), dbList)
       /\ manage_roles[channel]
    THEN remove_read_lock_others(others, overwrites, user_id, channel, permOut)
    ELSE others

UnlockAllOthers(others, overwrites, user_id, fetch, dbLists, permOuts) ==
    [u \in Users |-> [c \in Channels |->
        UnlockChannelOthers(others, overwrites, user_id, c, fetch,
                            dbLists[GuildOf(c)], permOuts[c])[u][c]]]

\* The whole loop: each channel belongs to one guild and is visited once.
UnlockAll(overwrites, user_id, fetch, dbLists, permOuts) ==
    [u \in Users |-> [c \in Channels |->
        UnlockChannel(overwrites, user_id, c, fetch,
                      dbLists[GuildOf(c)], permOuts[c])[u][c]]]

\* The channels whose unlock a failed call cut short.
UnlockFailed(fetch, dbLists, permOuts) ==
    {c \in Channels : \/ fetch # "ok"
                      \/ dbLists[GuildOf(c)] # "ok"
                      \/ permOuts[c] \notin {"ok", "forbidden"}}

\* Step 2 and 3 of a successful reply: the unlock loop and the confirmation.
UnlockAndConfirm(author, rows, seen) ==
    \E fetch \in FetchOutcomes :
        IF fetch # "ok"
        THEN /\ user_verifications' = rows
             /\ completed_on' = [completed_on EXCEPT ![author] = TodayLocal]
             /\ issued_on' = [issued_on EXCEPT ![author] = 0]
             /\ UNCHANGED <<read_message_history, send_messages>>
             /\ last' = [seen EXCEPT !.unlock_failed = Channels]
        ELSE \E dbLists \in [Guilds -> DbOutcomes],
                permOuts \in [Channels -> {"ok", "http_error", "forbidden"}] :
                /\ \A c \in Channels : permOuts[c] \in PermOutcomes(c)
                /\ \A c \in Channels :
                       <<GuildOf(c), c>> \notin mindful_channels => permOuts[c] = "ok"
                /\ user_verifications' = rows
                /\ completed_on' = [completed_on EXCEPT ![author] = TodayLocal]
                /\ issued_on' = [issued_on EXCEPT ![author] = 0]
                /\ read_message_history' =
                       UnlockAll(read_message_history, author, fetch,
                                 dbLists, permOuts)
                /\ send_messages' =
                       UnlockAllOthers(send_messages, read_message_history,
                                       author, fetch, dbLists, permOuts)
                /\ last' = [seen EXCEPT
                              !.sent = "confirm",
                              !.unlock_failed =
                                  UnlockFailed(fetch, dbLists, permOuts)]

\* The branch of on_message for a reply that equals the pending text.
CompleteVerification(author, seen) ==
    \E dbUpdate \in DbOutcomes :
        LET r == complete_verification_db(user_verifications, author, dbUpdate)
        IN  IF r.ok
            THEN UnlockAndConfirm(author, r.rows,
                                  [seen EXCEPT !.matched = TRUE, !.persisted = TRUE])
            ELSE /\ last' = [seen EXCEPT !.matched = TRUE, !.sent = "error"]
                 /\ UNCHANGED <<user_verifications, read_message_history, send_messages,
                                completed_on, issued_on>>

\* on_message(message) for a message in a DMChannel with the text content.
\* The record keeps the text when the handler compares it.
on_message(author, content) ==
    /\ last = Idle
    /\ UNCHANGED <<now, mindful_channels, text_channels, manage_roles, last_reset_run_date,
                   runs_today, tasks>>
    /\ IF startswith(content, COMMAND_PREFIX)
       THEN /\ last' = [Idle EXCEPT !.op = "on_message", !.user = author,
                                    !.status = "command"]
            /\ UNCHANGED <<user_verifications, read_message_history, send_messages,
                           completed_on, issued_on>>
       ELSE \E st \in {get_user_verification_status_db(
                           user_verifications, author, db) : db \in DbOutcomes} :
              LET seen == [Idle EXCEPT !.op = "on_message", !.user = author,
                                       !.status = st.status,
                                       !.expected = st.pending]
              IN  IF st.status = "pending" /\ st.pending # <<>>
                  THEN IF affirmation_matches(content, st.pending)
                       THEN CompleteVerification(author,
                                [seen EXCEPT !.content = content])
                       ELSE /\ last' = [seen EXCEPT !.content = content,
                                                    !.sent = "retry",
                                                    !.sent_text = st.pending]
                            /\ UNCHANGED <<user_verifications,
                                           read_message_history, send_messages,
                                           completed_on, issued_on>>
                  ELSE /\ last' = seen
                       /\ UNCHANGED <<user_verifications, read_message_history,
                                      send_messages,
                                      completed_on, issued_on>>

\* --------------------------------------------------------- daily_reset_task

\* The condition with the run date compared by <=: a day already done is due again.
ResetDueAgain == PastTargetTime /\ last_reset_run_date <= TodayLocal

\* The condition of daily_reset_task.
ResetDue == PastTargetTime /\ last_reset_run_date < TodayLocal

\* One run of the loop body of daily_reset_task.
daily_reset_task ==
    /\ last = Idle
    /\ UNCHANGED <<now, mindful_channels, text_channels, read_message_history, send_messages,
                   manage_roles, tasks>>
    /\ IF ResetDue
       THEN \E dbDelete \in DbOutcomes :
              LET r == clear_stale_verifications_db(user_verifications, dbDelete)
              IN  /\ user_verifications' = r.rows
                  /\ completed_on' = [u \in Users |->
                        IF u \in DOMAIN r.rows THEN completed_on[u] ELSE 0]
                  /\ issued_on' = [u \in Users |->
                        IF u \in DOMAIN r.rows THEN issued_on[u] ELSE 0]
                  /\ last_reset_run_date' = TodayLocal
                  /\ runs_today' = IF dbDelete = "ok" /\ runs_today < 2
                                   THEN runs_today + 1 ELSE runs_today
                  /\ last' = [Idle EXCEPT !.op = "daily_reset_task",
                                          !.fired = TRUE, !.cleared = r.count,
                                          !.db = dbDelete]
       ELSE /\ last' = [Idle EXCEPT !.op = "daily_reset_task"]
            /\ UNCHANGED <<user_verifications, last_reset_run_date, runs_today,
                           completed_on, issued_on>>

\* ------------------------------------------------------------- environment

\* Time passes to the next instant at which a date or the reset condition changes.
AdvanceClock ==
    /\ last = Idle
    /\ NextInstant(now) <= MaxDay * 24
    /\ now' = NextInstant(now)
    /\ runs_today' = IF (NextInstant(now) - NY_UTC_OFFSET_HOURS) \div 24 = TodayLocal
                     THEN runs_today ELSE 0
    /\ UNCHANGED <<user_verifications, mindful_channels, text_channels, read_message_history,
                   send_messages,
                   manage_roles, last_reset_run_date, completed_on, issued_on, tasks, last>>

\* A guild admin grants or revokes the bot's manage_roles in a channel; the
\* admins of g1 never do.
SetManageRoles(channel) ==
    /\ last = Idle
    /\ GuildOf(channel) # "g1"
    /\ manage_roles' = [manage_roles EXCEPT ![channel] = ~@]
    /\ UNCHANGED <<now, user_verifications, mindful_channels, text_channels, read_message_history,
                   send_messages,
                   last_reset_run_date, runs_today, completed_on, issued_on, tasks, last>>

\* The handler returns: its record is dropped before the next event is handled.
HandlerReturns ==
    /\ last # Idle
    /\ last' = Idle
    /\ UNCHANGED <<now, user_verifications, mindful_channels, text_channels, read_message_history,
                   send_messages,
                   manage_roles, last_reset_run_date, runs_today, completed_on,
                   issued_on, tasks>>

\* ------------------------------------------------------------ specification

\* The bot starts at any time of UTC day 2 with empty tables of verifications.
Init ==
    /\ now \in {t \in (2 * 24)..(3 * 24 - 1) : IsBoundary(t)}
    /\ user_verifications = <<>>
    /\ mindful_channels = {<<GuildOf(c), c>> : c \in Channels \ {"c3"}}
    /\ text_channels = Channels
    /\ read_message_history = [u \in Users |-> [c \in Channels |-> "inherit"]]
    /\ send_messages = [u \in Users |-> [c \in Channels |-> "inherit"]]
    /\ manage_roles = [c \in Channels |-> TRUE]
    /\ last_reset_run_date = DATE_MIN
    /\ runs_today = 0
    /\ completed_on = [u \in Users |-> 0]
    /\ issued_on = [u \in Users |-> 0]
    /\ tasks = NoTasks
    /\ last = Idle

Next ==
    \/ \E channel \in Channels, user \in Users \cup Bots : on_typing(channel, user)
    \/ \E author \in Users, content \in Replies : on_message(author, content)
    \/ daily_reset_task
    \/ AdvanceClock
    \/ \E channel \in Channels : SetManageRoles(channel)
    \/ HandlerReturns

Spec == Init /\ [][Next]_vars

\* ---------------------------------------------- the lock helpers on their own

\* What the first argument of a helper may be: a Member or a plain User.
UserKinds == {"Member", "User"}

\* What the second argument may be.
ChannelKinds == {"TextChannel", "VoiceChannel"}

\* channel.set_permissions returns or raises: Forbidden, NotFound, another
\* HTTPException, or an exception of any other class.
SetPermissionsOutcomes == {"ok", "Forbidden", "NotFound", "HTTPException", "Exception"}

\* The helper whose last except clause is missing.
raises_without_catch_all(user_kind, channel_kind, outcome) ==
    IF user_kind # "Member" THEN FALSE
    ELSE IF channel_kind # "TextChannel" THEN FALSE
    ELSE outcome \notin {"ok", "Forbidden", "NotFound", "HTTPException"}

\* Whether apply_read_lock lets an exception out: the two isinstance tests
\* return, the four except clauses swallow what the call raises.
apply_read_lock_raises(user_kind, channel_kind, outcome) ==
    IF user_kind # "Member" THEN FALSE
    ELSE IF channel_kind # "TextChannel" THEN FALSE
    ELSE outcome \notin {"ok", "Forbidden", "NotFound", "HTTPException", "Exception"}

\* The same for remove_read_lock.
remove_read_lock_raises(user_kind, channel_kind, outcome) ==
    IF user_kind # "Member" THEN FALSE
    ELSE IF channel_kind # "TextChannel" THEN FALSE
    ELSE outcome \notin {"ok", "Forbidden", "NotFound", "HTTPException", "Exception"}

\* The channels the helpers are called on in LockSpec.
LockChannels == {"c1", "c2"}

\* A call of apply_read_lock(user, channel).
CallApplyReadLock(user, channel, user_kind, channel_kind, outcome) ==
    LET valid == user_kind = "Member" /\ channel_kind = "TextChannel"
    IN  /\ read_message_history' =
               IF valid
               THEN apply_read_lock(read_message_history, user, channel, outcome)
               ELSE read_message_history
        /\ send_messages' =
               IF valid
               THEN apply_read_lock_others(send_messages, user, channel, outcome)
               ELSE send_messages
        /\ last' = [Idle EXCEPT
                      !.op = "apply_read_lock", !.user = user, !.channel = channel,
                      !.status = IF valid THEN "called" ELSE "invalid",
                      !.lock = IF valid THEN OkOrFailed(outcome) ELSE "-",
                      !.raised = apply_read_lock_raises(user_kind, channel_kind,
                                                        outcome)]
        /\ UNCHANGED <<now, user_verifications, mindful_channels, text_channels, manage_roles,
                       last_reset_run_date, runs_today, completed_on, issued_on, tasks>>

\* A call of remove_read_lock(user, channel).
CallRemoveReadLock(user, channel, user_kind, channel_kind, outcome) ==
    LET valid == user_kind = "Member" /\ channel_kind = "TextChannel"
        denied == read_message_history[user][channel] = "deny"
    IN  /\ read_message_history' =
               IF valid
               THEN remove_read_lock(read_message_history, user, channel, outcome)
               ELSE read_message_history
        /\ send_messages' =
               IF valid
               THEN remove_read_lock_others(send_messages, read_message_history,
                                            user, channel, outcome)
               ELSE send_messages
        /\ last' = [Idle EXCEPT
                      !.op = "remove_read_lock", !.user = user, !.channel = channel,
                      !.status = IF ~valid THEN "invalid"
                                 ELSE IF denied THEN "called" ELSE "skipped",
                      !.lock = IF valid /\ denied THEN OkOrFailed(outcome) ELSE "-",
                      !.raised = remove_read_lock_raises(user_kind, channel_kind,
                                                         outcome)]
        /\ UNCHANGED <<now, user_verifications, mindful_channels, text_channels, manage_roles,
                       last_reset_run_date, runs_today, completed_on, issued_on, tasks>>

\* A moderator of g1 sets or unsets send_messages in the member's overwrite.
ModeratorSets(user, channel) ==
    /\ GuildOf(channel) = "g1"
    /\ send_messages' = [send_messages EXCEPT ![user][channel] =
                            IF @ = "deny" THEN "inherit" ELSE "deny"]
    /\ last' = [Idle EXCEPT !.op = "moderator", !.user = user, !.channel = channel]
    /\ UNCHANGED <<now, user_verifications, mindful_channels, text_channels, read_message_history,
                   manage_roles, last_reset_run_date, runs_today, completed_on,
                   issued_on, tasks>>

LockInit ==
    /\ now = 2 * 24
    /\ user_verifications = <<>>
    /\ mindful_channels = {<<GuildOf(c), c>> : c \in Channels \ {"c3"}}
    /\ text_channels = Channels
    /\ read_message_history = [u \in Users |-> [c \in Channels |-> "inherit"]]
    /\ send_messages = [u \in Users |-> [c \in Channels |-> "inherit"]]
    /\ manage_roles = [c \in Channels |-> TRUE]
    /\ last_reset_run_date = DATE_MIN
    /\ runs_today = 0
    /\ completed_on = [u \in Users |-> 0]
    /\ issued_on = [u \in Users |-> 0]
    /\ tasks = NoTasks
    /\ last = Idle

LockNext ==
    \/ \E user \in Users, channel \in LockChannels, user_kind \in UserKinds,
          channel_kind \in ChannelKinds, outcome \in SetPermissionsOutcomes :
            CallApplyReadLock(user, channel, user_kind, channel_kind, outcome)
    \/ \E user \in Users, channel \in LockChannels, user_kind \in UserKinds,
          channel_kind \in ChannelKinds, outcome \in SetPermissionsOutcomes :
            CallRemoveReadLock(user, channel, user_kind, channel_kind, outcome)
    \/ \E user \in Users, channel \in LockChannels : ModeratorSets(user, channel)

LockSpec == LockInit /\ [][LockNext]_vars

\* ------------------------------------------- on_typing, one await at a time

\* The users whose signals RaceSpec handles step by step.
RaceUsers == {"u1"}

\* The handler's record with some fields replaced.
TaskSet(h, task) == [tasks EXCEPT !.run[h] = task]

\* A step of a typing handler is taken between two runs of the other handlers
\* (their record has been dropped) and leaves these variables alone.
TypingFrame ==
    /\ last = Idle
    /\ UNCHANGED <<now, mindful_channels, text_channels, manage_roles, last_reset_run_date,
                   runs_today, last>>

\* on_typing up to its read of the user's status: the filters, then the status.
TypingObserves(h, channel, user) ==
    /\ tasks.run[h].pc = "idle"
    /\ get_member(GuildOf(channel), user)
    /\ LET started == [NoTask EXCEPT !.user = user, !.channel = channel]
           guild_id == GuildOf(channel)
       IN  \E channels_list \in
                {get_mindful_channels_db(guild_id, db) : db \in DbOutcomes} :
             IF \/ user \in Bots
                \/ channel \notin channels_list
                \/ user \notin get_mindful_role(guild_id)
             THEN tasks' = TaskSet(h, [started EXCEPT !.pc = "done"])
             ELSE \E st \in {get_user_verification_status_db(
                                 user_verifications, user, db) : db \in DbOutcomes} :
                    tasks' = TaskSet(h, [started EXCEPT
                                 !.status = st.status,
                                 !.pc = IF st.status = "verified" THEN "done"
                                        ELSE "lock"])
    /\ TypingFrame
    /\ UNCHANGED <<user_verifications, read_message_history, send_messages,
                   completed_on, issued_on>>

\* apply_read_lock, in the 'none' branch (the notice follows) and in the
\* 'pending' branch (the handler ends).
TypingLocks(h) ==
    LET t == tasks.run[h]
    IN  /\ t.pc = "lock"
        /\ \E lockOut \in PermOutcomes(t.channel) :
             /\ read_message_history' =
                    apply_read_lock(read_message_history, t.user, t.channel, lockOut)
             /\ send_messages' =
                    apply_read_lock_others(send_messages, t.user, t.channel, lockOut)
             /\ tasks' = TaskSet(h, [t EXCEPT
                             !.lock = OkOrFailed(lockOut),
                             !.pc = IF t.status = "none" THEN "upsert" ELSE "done"])
        /\ TypingFrame
        /\ UNCHANGED <<user_verifications, completed_on, issued_on>>

\* random.choice and set_pending_verification_db.
TypingUpserts(h) ==
    LET t == tasks.run[h]
    IN  /\ t.pc = "upsert"
        /\ \E affirmation_text \in AFFIRMATIONS, dbWrite \in DbOutcomes :
             LET w == set_pending_verification_db(user_verifications, t.user,
                                                  affirmation_text, dbWrite)
             IN  /\ user_verifications' = w.rows
                 /\ IF w.ok
                    THEN /\ tasks' = [TaskSet(h, [t EXCEPT
                                          !.phrase = affirmation_text,
                                          !.persisted = TRUE, !.pc = "dm"])
                                      EXCEPT !.written = affirmation_text]
                         /\ completed_on' = [completed_on EXCEPT ![t.user] = 0]
                         /\ issued_on' = [issued_on EXCEPT ![t.user] = UtcToday]
                    ELSE /\ tasks' = TaskSet(h, [t EXCEPT !.pc = "done"])
                         /\ UNCHANGED <<completed_on, issued_on>>
        /\ TypingFrame
        /\ UNCHANGED <<read_message_history, send_messages>>

\* user.create_dm and dm_channel.send.
TypingSendsDm(h) ==
    LET t == tasks.run[h]
    IN  /\ t.pc = "dm"
        /\ \E dm \in DmOutcomes :
             tasks' = TaskSet(h, [t EXCEPT !.dm = dm,
                                           !.pc = IF dm = "ok" THEN "done"
                                                  ELSE "cleanup"])
        /\ TypingFrame
        /\ UNCHANGED <<user_verifications, read_message_history, send_messages,
                       completed_on, issued_on>>

\* The DELETE of the except branches.
TypingCleansUp(h) ==
    LET t == tasks.run[h]
    IN  /\ t.pc = "cleanup"
        /\ \E dbDelete \in DbOutcomes :
             /\ user_verifications' =
                    IF dbDelete = "ok"
                    THEN delete_user_verification(user_verifications, t.user)
                    ELSE user_verifications
             /\ completed_on' = IF dbDelete = "ok"
                                THEN [completed_on EXCEPT ![t.user] = 0]
                                ELSE completed_on
             /\ issued_on' = IF dbDelete = "ok"
                             THEN [issued_on EXCEPT ![t.user] = 0]
                             ELSE issued_on
             /\ tasks' = TaskSet(h, [t EXCEPT !.cleanup = dbDelete, !.pc = "done"])
        /\ TypingFrame
        /\ UNCHANGED <<read_message_history, send_messages>>

\* Two signals are handled, their steps interleaved with each other and with
\* the replies of the user, who sends back one of the phrases; each reply is
\* handled in one step.
RaceNext ==
    \/ \E h \in Handlers, channel \in LockChannels, user \in RaceUsers :
          TypingObserves(h, channel, user)
    \/ \E h \in Handlers : TypingLocks(h)
    \/ \E h \in Handlers : TypingUpserts(h)
    \/ \E h \in Handlers : TypingSendsDm(h)
    \/ \E h \in Handlers : TypingCleansUp(h)
    \/ \E author \in RaceUsers, content \in AFFIRMATIONS :
          on_message(author, content)
    \/ HandlerReturns

RaceSpec == LockInit /\ [][RaceNext]_vars

\* ------------------------------------------ on_message, one await at a time

\* A step of the reply handler is taken between two runs of the other handlers
\* and leaves these variables alone.
ReplyFrame ==
    /\ last = Idle
    /\ UNCHANGED <<now, mindful_channels, text_channels, manage_roles,
                   last_reset_run_date, runs_today, last>>

\* on_message up to its read of the user's status and the comparison.
ReplyObserves(author, content) ==
    /\ tasks.reply.pc = "idle"
    /\ ~startswith(content, COMMAND_PREFIX)
    /\ \E st \in {get_user_verification_status_db(
                      user_verifications, author, db) : db \in DbOutcomes} :
         LET read == [NoReply EXCEPT !.user = author, !.content = content,
                                     !.status = st.status,
                                     !.expected = st.pending,
                                     !.resolved_on = UtcToday]
         IN  tasks' = [tasks EXCEPT !.reply =
                 IF st.status = "pending" /\ st.pending # <<>>
                 THEN IF affirmation_matches(content, st.pending)
                      THEN [read EXCEPT !.pc = "complete"]
                      ELSE [read EXCEPT !.pc = "done", !.sent = "retry"]
                 ELSE [read EXCEPT !.pc = "done"]]
    /\ ReplyFrame
    /\ UNCHANGED <<user_verifications, read_message_history, send_messages,
                   completed_on, issued_on>>

\* complete_verification_db, with the UTC date of the moment it is called.
ReplyCompletes ==
    LET t == tasks.reply
    IN  /\ t.pc = "complete"
        /\ \E dbUpdate \in DbOutcomes :
             LET r == complete_verification_db(user_verifications, t.user, dbUpdate)
             IN  /\ user_verifications' = r.rows
                 /\ IF r.ok
                    THEN /\ tasks' = [tasks EXCEPT !.reply =
                                [t EXCEPT !.persisted = TRUE, !.pc = "unlock"]]
                         /\ completed_on' =
                                [completed_on EXCEPT ![t.user] = TodayLocal]
                         /\ issued_on' = [issued_on EXCEPT ![t.user] = 0]
                    ELSE /\ tasks' = [tasks EXCEPT !.reply =
                                [t EXCEPT !.sent = "error", !.pc = "done"]]
                         /\ UNCHANGED <<completed_on, issued_on>>
        /\ ReplyFrame
        /\ UNCHANGED <<read_message_history, send_messages>>

\* The unlock loop over the guilds and their mindful channels, and the
\* confirmation; an exception of fetch_guilds ends the handler.
ReplyUnlocks ==
    LET t == tasks.reply
    IN  /\ t.pc = "unlock"
        /\ \E fetch \in FetchOutcomes :
             IF fetch # "ok"
             THEN /\ tasks' = [tasks EXCEPT !.reply =
                         [t EXCEPT !.unlock_failed = Channels, !.pc = "done"]]
                  /\ UNCHANGED <<read_message_history, send_messages>>
             ELSE \E dbLists \in [Guilds -> DbOutcomes],
                     permOuts \in [Channels -> {"ok", "http_error", "forbidden"}] :
                     /\ \A c \in Channels : permOuts[c] \in PermOutcomes(c)
                     /\ \A c \in Channels :
                            <<GuildOf(c), c>> \notin mindful_channels =>
                                permOuts[c] = "ok"
                     /\ read_message_history' =
                            UnlockAll(read_message_history, t.user, fetch,
                                      dbLists, permOuts)
                     /\ send_messages' =
                            UnlockAllOthers(send_messages, read_message_history,
                                            t.user, fetch, dbLists, permOuts)
                     /\ tasks' = [tasks EXCEPT !.reply =
                            [t EXCEPT !.sent = "confirm",
                                      !.unlock_failed =
                                          UnlockFailed(fetch, dbLists, permOuts),
                                      !.pc = "done"]]
        /\ ReplyFrame
        /\ UNCHANGED <<user_verifications, completed_on, issued_on>>

\* The handler of ReplySpec that runs step by step.
ReplyHandlers == {"h1"}

\* One reply of u1 is handled step by step, between the steps of a signal
\* handler, signals handled in one step, the runs of the reset task and the
\* passing of time.
ReplyNext ==
    \/ \E h \in ReplyHandlers, user \in RaceUsers : TypingObserves(h, "c1", user)
    \/ \E h \in ReplyHandlers : TypingLocks(h)
    \/ \E h \in ReplyHandlers : TypingUpserts(h)
    \/ \E h \in ReplyHandlers : TypingSendsDm(h)
    \/ \E h \in ReplyHandlers : TypingCleansUp(h)
    \/ \E user \in RaceUsers : on_typing("c1", user)
    \/ \E author \in RaceUsers, content \in AFFIRMATIONS :
          ReplyObserves(author, content)
    \/ ReplyCompletes
    \/ ReplyUnlocks
    \/ daily_reset_task
    \/ AdvanceClock
    \/ HandlerReturns

ReplySpec == LockInit /\ [][ReplyNext]_vars

\* ------------------------------------------------ the bulk clear on its own

\* The rows a user may have at a time: dated today or yesterday (UTC), verified
\* or pending.
RowsAt(t) ==
    [verified_date : {t \div 24 - 1, t \div 24},
     pending_affirmation : {NULL} \cup AFFIRMATIONS]

\* A call of clear_stale_verifications_db, from the reset task of this process
\* or of one started later in the day.
RunClear ==
    /\ last = Idle
    /\ \E dbDelete \in DbOutcomes :
         LET r == clear_stale_verifications_db(user_verifications, dbDelete)
         IN  /\ user_verifications' = r.rows
             /\ runs_today' = IF dbDelete = "ok" /\ runs_today < 2
                              THEN runs_today + 1 ELSE runs_today
             /\ last' = [Idle EXCEPT !.op = "clear_stale_verifications_db",
                                     !.fired = TRUE, !.cleared = r.count,
                                     !.db = dbDelete]
    /\ UNCHANGED <<now, mindful_channels, text_channels, read_message_history, send_messages,
                   manage_roles, last_reset_run_date, completed_on, issued_on,
                   tasks>>

\* Any table of rows at any time of UTC day 2.
ClearInit ==
    /\ now \in {t \in (2 * 24)..(3 * 24 - 1) : IsBoundary(t)}
    /\ user_verifications \in UNION {[S -> RowsAt(now)] : S \in SUBSET Users}
    /\ mindful_channels = {<<GuildOf(c), c>> : c \in Channels \ {"c3"}}
    /\ text_channels = Channels
    /\ read_message_history = [u \in Users |-> [c \in Channels |-> "inherit"]]
    /\ send_messages = [u \in Users |-> [c \in Channels |-> "inherit"]]
    /\ manage_roles = [c \in Channels |-> TRUE]
    /\ last_reset_run_date = DATE_MIN
    /\ runs_today = 0
    /\ completed_on = [u \in Users |-> 0]
    /\ issued_on = [u \in Users |-> 0]
    /\ tasks = NoTasks
    /\ last = Idle

ClearNext ==
    \/ RunClear
    \/ AdvanceClock
    \/ HandlerReturns

ClearSpec == ClearInit /\ [][ClearNext]_vars

\* --------------------------------------------------------- the admin commands

\* ctx.send: the message is posted or the call raises.
SendOutcomes == {"ok", "error"}

\* What the variables an admin command never touches keep.
AdminFrame ==
    UNCHANGED <<now, user_verifications, text_channels, manage_roles,
                last_reset_run_date, runs_today, completed_on, issued_on, tasks>>

\* !addMindfulChannel #channel, sent in the guild of the channel by an
\* administrator: the INSERT, then the confirmation or the warning.
add_mindful_channel(guild, channel) ==
    /\ last = Idle
    /\ channel \in text_channels
    /\ GuildOf(channel) = guild
    /\ \E db \in DbOutcomes :
         LET r == add_mindful_channel_db(guild, channel, db)
         IN  /\ mindful_channels' = r.rows
             /\ last' = [Idle EXCEPT !.op = "add_mindful_channel",
                                     !.guild = guild, !.channel = channel,
                                     !.status =
                                         IF <<guild, channel>> \in mindful_channels
                                         THEN "present" ELSE "absent",
                                     !.db = db,
                                     !.persisted = r.ok,
                                     !.sent = IF r.ok THEN "added" ELSE "failed"]
    /\ UNCHANGED <<read_message_history, send_messages>>
    /\ AdminFrame

\* The loop of remove_mindful_channel over mindful_role.members: one call of
\* remove_read_lock per member, each with its own outcome.
RemoveLocksOfMembers(overwrites, members, channel, permOuts) ==
    [u \in Users |-> [c \in Channels |->
        IF c = channel /\ u \in members
        THEN remove_read_lock(overwrites, u, c, permOuts[u])[u][c]
        ELSE overwrites[u][c]]]

\* The same loop, for the members' other capabilities in the channel.
RemoveLocksOfMembersOthers(others, overwrites, members, channel, permOuts) ==
    [u \in Users |-> [c \in Channels |->
        IF c = channel /\ u \in members
        THEN remove_read_lock_others(others, overwrites, u, c, permOuts[u])[u][c]
        ELSE others[u][c]]]

\* !removeMindfulChannel #channel: the list is read, the row deleted, the
\* confirmation sent, and the members of the role are unlocked in the channel
\* when the bot has manage_roles there.
remove_mindful_channel(guild, channel) ==
    /\ last = Idle
    /\ channel \in text_channels
    /\ GuildOf(channel) = guild
    /\ AdminFrame
    /\ LET seen == [Idle EXCEPT !.op = "remove_mindful_channel",
                                !.guild = guild, !.channel = channel]
       IN  \E current_channels \in
                {get_mindful_channels_db(guild, db) : db \in DbOutcomes} :
             IF channel \notin current_channels
             THEN /\ last' = [seen EXCEPT !.listed = current_channels,
                                          !.sent = "not_found"]
                  /\ UNCHANGED <<mindful_channels, read_message_history,
                                 send_messages>>
             ELSE \E db \in DbOutcomes, sendOut \in SendOutcomes :
                    LET r == remove_mindful_channel_db(guild, channel, db)
                        found == [seen EXCEPT !.listed = current_channels,
                                              !.persisted = r.ok]
                    IN  /\ mindful_channels' = r.rows
                        /\ IF ~r.ok
                           THEN /\ last' = [found EXCEPT !.sent = "failed"]
                                /\ UNCHANGED <<read_message_history, send_messages>>
                           ELSE IF sendOut # "ok"
                           THEN /\ last' = [found EXCEPT !.raised = TRUE]
                                /\ UNCHANGED <<read_message_history, send_messages>>
                           ELSE IF ~manage_roles[channel]
                           THEN /\ last' = [found EXCEPT !.sent = "removed",
                                                         !.lock = "skipped"]
                                /\ UNCHANGED <<read_message_history, send_messages>>
                           ELSE \E permOuts \in [Users -> PermOutcomes(channel)] :
                                  /\ read_message_history' = RemoveLocksOfMembers(
                                         read_message_history,
                                         get_mindful_role(guild), channel, permOuts)
                                  /\ send_messages' = RemoveLocksOfMembersOthers(
                                         send_messages, read_message_history,
                                         get_mindful_role(guild), channel, permOuts)
                                  /\ last' = [found EXCEPT
                                        !.sent = "removed",
                                        !.lock = "called",
                                        !.unlocked =
                                            {u \in get_mindful_role(guild) \cap Users :
                                                /\ read_message_history[u][channel] = "deny"
                                                /\ permOuts[u] = "ok"},
                                        !.unlock_failed =
                                            {u \in get_mindful_role(guild) \cap Users :
                                                /\ read_message_history[u][channel] = "deny"
                                                /\ permOuts[u] # "ok"}]

\* bot.fetch_channel of a channel that guild.get_channel did not find: NotFound
\* or Forbidden (the channel counts as gone), or an error that leaves the command.
FetchChannelOutcomes == {"NotFound", "Forbidden", "HTTPException"}

\* The ids of the list that guild.get_channel or bot.fetch_channel resolve.
valid_channel_ids(channel_ids) == channel_ids \cap text_channels

\* The cleanup of list_mindful_channels: DELETE of the guild's rows, then
\* executemany of the INSERT for the valid ids; the two statements are not in a
\* transaction, and an exception of either leaves the command.
cleanup_mindful_channels(guild, valid, dbDelete, dbInsert) ==
    IF dbDelete # "ok" THEN [ok |-> FALSE, rows |-> mindful_channels]
    ELSE LET deleted == {r \in mindful_channels : r[1] # guild}
         IN  IF valid = {} THEN [ok |-> TRUE, rows |-> deleted]
             ELSE IF dbInsert = "ok"
             THEN [ok |-> TRUE, rows |-> deleted \cup {<<guild, c>> : c \in valid}]
             ELSE [ok |-> FALSE, rows |-> deleted]

\* !listMindfulChannels: the list is read and resolved, the message sent, and
\* the table cleaned when an id did not resolve.
list_mindful_channels(guild) ==
    /\ last = Idle
    /\ AdminFrame
    /\ UNCHANGED <<read_message_history, send_messages>>
    /\ LET seen == [Idle EXCEPT !.op = "list_mindful_channels", !.guild = guild]
       IN  \E channel_ids \in
                {get_mindful_channels_db(guild, db) : db \in DbOutcomes} :
             LET valid == valid_channel_ids(channel_ids)
                 needs_cleanup == valid # channel_ids
                 read == [seen EXCEPT !.listed = channel_ids, !.valid = valid]
             IN  IF channel_ids = {}
                 THEN /\ last' = [read EXCEPT !.sent = "none_configured"]
                      /\ UNCHANGED mindful_channels
                 ELSE \E fetchOut \in FetchChannelOutcomes,
                         sendOut \in SendOutcomes, noteOut \in SendOutcomes,
                         dbDelete \in DbOutcomes, dbInsert \in DbOutcomes :
                        IF \/ needs_cleanup /\ fetchOut = "HTTPException"
                           \/ sendOut # "ok"
                        THEN /\ last' = [read EXCEPT !.raised = TRUE]
                             /\ UNCHANGED mindful_channels
                        ELSE IF ~needs_cleanup
                        THEN /\ last' = [read EXCEPT !.sent = "list"]
                             /\ UNCHANGED mindful_channels
                        ELSE LET r == cleanup_mindful_channels(
                                          guild, valid, dbDelete, dbInsert)
                             IN  /\ mindful_channels' = r.rows
                                 /\ last' = [read EXCEPT
                                       !.sent = IF valid = {} THEN "no_valid"
                                                ELSE "list",
                                       !.db = dbDelete,
                                       !.persisted = r.ok,
                                       !.raised = \/ ~r.ok
                                                  \/ valid # {} /\ noteOut # "ok"]

\* A channel is deleted on the platform; its id is never given out again.
DeleteChannel(channel) ==
    /\ last = Idle
    /\ channel \in text_channels
    /\ text_channels' = text_channels \ {channel}
    /\ UNCHANGED <<now, user_verifications, mindful_channels, read_message_history,
                   send_messages, manage_roles, last_reset_run_date, runs_today,
                   completed_on, issued_on, tasks, last>>

\* The commands are given while members hold the locks that earlier signals
\* left in the channels.
AdminInit ==
    /\ now = 2 * 24
    /\ user_verifications = <<>>
    /\ mindful_channels = {<<GuildOf(c), c>> : c \in Channels \ {"c3"}}
    /\ text_channels = Channels
    /\ read_message_history \in [Users -> [Channels -> {"inherit", "deny"}]]
    /\ send_messages = [u \in Users |-> [c \in Channels |-> "inherit"]]
    /\ manage_roles = [c \in Channels |-> TRUE]
    /\ last_reset_run_date = DATE_MIN
    /\ runs_today = 0
    /\ completed_on = [u \in Users |-> 0]
    /\ issued_on = [u \in Users |-> 0]
    /\ tasks = NoTasks
    /\ last = Idle

AdminNext ==
    \/ \E guild \in Guilds, channel \in Channels : add_mindful_channel(guild, channel)
    \/ \E guild \in Guilds, channel \in Channels :
          remove_mindful_channel(guild, channel)
    \/ \E guild \in Guilds : list_mindful_channels(guild)
    \/ \E channel \in Channels : DeleteChannel(channel)
    \/ \E channel \in Channels : SetManageRoles(channel)
    \/ HandlerReturns

AdminSpec == AdminInit /\ [][AdminNext]_vars

\* ------------------------------- list_mindful_channels, one await at a time

\* A step of the list command is taken between two runs of the other commands
\* and leaves these variables alone.
ListFrame ==
    /\ last = Idle
    /\ UNCHANGED <<now, user_verifications, text_channels, read_message_history,
                   send_messages, manage_roles, last_reset_run_date, runs_today,
                   completed_on, issued_on, last>>

\* The command with some fields of its record replaced.
ListSet(list) == [tasks EXCEPT !.list = list]

\* get_mindful_channels_db(ctx.guild.id)
ListReads(guild) ==
    /\ tasks.list.pc = "idle"
    /\ \E channel_ids \in
            {get_mindful_channels_db(guild, db) : db \in DbOutcomes} :
         tasks' = ListSet([NoList EXCEPT
                      !.guild = guild, !.channel_ids = channel_ids,
                      !.pc = IF channel_ids = {} THEN "done" ELSE "resolve"])
    /\ ListFrame
    /\ UNCHANGED mindful_channels

\* The loop over the ids: guild.get_channel, then bot.fetch_channel for an id
\* that is not in the cache.
ListResolves ==
    LET t == tasks.list
        valid == valid_channel_ids(t.channel_ids)
    IN  /\ t.pc = "resolve"
        /\ \E fetchOut \in FetchChannelOutcomes :
             tasks' = ListSet(
                 IF valid # t.channel_ids /\ fetchOut = "HTTPException"
                 THEN [t EXCEPT !.raised = TRUE, !.pc = "done"]
                 ELSE [t EXCEPT !.valid = valid, !.pc = "send"])
        /\ ListFrame
        /\ UNCHANGED mindful_channels

\* ctx.send of the list, or of the message that no channel is valid.
ListSends ==
    LET t == tasks.list
    IN  /\ t.pc = "send"
        /\ \E sendOut \in SendOutcomes :
             tasks' = ListSet(
                 IF sendOut # "ok" THEN [t EXCEPT !.raised = TRUE, !.pc = "done"]
                 ELSE IF t.valid = t.channel_ids THEN [t EXCEPT !.pc = "done"]
                 ELSE [t EXCEPT !.pc = "delete"])
        /\ ListFrame
        /\ UNCHANGED mindful_channels

\* DELETE FROM mindful_channels WHERE guild_id = $1
ListDeletes ==
    LET t == tasks.list
        rows == {r \in mindful_channels : r[1] = t.guild}
    IN  /\ t.pc = "delete"
        /\ \E dbDelete \in DbOutcomes :
             IF dbDelete # "ok"
             THEN /\ tasks' = ListSet([t EXCEPT !.raised = TRUE, !.pc = "done"])
                  /\ UNCHANGED mindful_channels
             ELSE /\ mindful_channels' = mindful_channels \ rows
                  /\ tasks' = ListSet([t EXCEPT
                         !.deleted = rows,
                         !.pc = IF t.valid = {} THEN "done" ELSE "insert"])
        /\ ListFrame

\* executemany of the INSERT for the valid ids: it raises, and inserts nothing,
\* when the call fails or one of the rows is in the table again.
ListInserts ==
    LET t == tasks.list
        rows == {<<t.guild, c>> : c \in t.valid}
    IN  /\ t.pc = "insert"
        /\ \E dbInsert \in DbOutcomes :
             IF dbInsert # "ok" \/ rows \cap mindful_channels # {}
             THEN /\ tasks' = ListSet([t EXCEPT !.raised = TRUE, !.pc = "done"])
                  /\ UNCHANGED mindful_channels
             ELSE /\ mindful_channels' = mindful_channels \cup rows
                  /\ tasks' = ListSet([t EXCEPT !.pc = "done"])
        /\ ListFrame

\* One listMindfulChannels is run step by step while channels are added to the
\* lists and deleted on the platform.
ListNext ==
    \/ \E guild \in Guilds : ListReads(guild)
    \/ ListResolves
    \/ ListSends
    \/ ListDeletes
    \/ ListInserts
    \/ \E guild \in Guilds, channel \in Channels : add_mindful_channel(guild, channel)
    \/ \E channel \in Channels : DeleteChannel(channel)
    \/ HandlerReturns

ListSpec == LockInit /\ [][ListNext]_vars

\* ================================================================== claims

\* The user's row, read without error, as the resolver sees it.
Resolved(user) == get_user_verification_status_db(user_verifications, user, "ok")

HasRow(user) == user \in DOMAIN user_verifications

ChallengeDelivered ==
    /\ last.op = "on_typing" /\ last.status = "none"
    /\ last.persisted /\ last.dm = "ok"

\* The user's row is a challenge issued today.
PendingToday(user) ==
    /\ HasRow(user)
    /\ user_verifications[user].verified_date = UtcToday
    /\ user_verifications[user].pending_affirmation \in AFFIRMATIONS

\* C2 as claimed: when a role holder types in a gated channel in state None and
\* persistence and delivery succeed, the handler ends with the user's one record
\* dated today and holding a phrase of the set, and with the lock on that channel
\* applied; wherever a challenge has been delivered the lock was applied no later
\* than the delivery.
C2_DeliveredImpliesLocked ==
    ChallengeDelivered =>
        /\ PendingToday(last.user)
        /\ last.lock = "ok"
        /\ read_message_history[last.user][last.channel] = "deny"

\* C2 amended: ... the handler ends with the user's one record dated today and
\* holding a phrase of the set; apply_lock was called on that channel before the
\* delivery, and the lock is in place whenever its platform call succeeded (a
\* failed call is swallowed and the challenge is issued all the same).
C2_DeliveredAfterLockCall ==
    ChallengeDelivered =>
        /\ PendingToday(last.user)
        /\ last.lock \in {"ok", "failed"}
        /\ last.lock = "ok" =>
               read_message_history[last.user][last.channel] = "deny"

\* C2 witness: a challenge was delivered after a lock call that succeeded.
C2_Witness ==
    /\ ChallengeDelivered
    /\ last.lock = "ok"
    /\ PendingToday(last.user)
    /\ read_message_history[last.user][last.channel] = "deny"

\* Positions of the characters of a text that are not blank.
Inked(s) == {i \in 1..Len(s) : s[i] # " "}

\* The text between its first and its last character that is not blank.
Trimmed(s) ==
    IF Inked(s) = {} THEN <<>>
    ELSE SubSeq(s, CHOOSE i \in Inked(s) : \A j \in Inked(s) : i <= j,
                   CHOOSE i \in Inked(s) : \A j \in Inked(s) : i >= j)

\* The text with its capital letters replaced by small ones.
Folded(s) == [i \in 1..Len(s) |-> IF s[i] = "I" THEN "i" ELSE s[i]]

\* The reply, trimmed and case-folded, equals the expected text case-folded.
SameAffirmation(content, expected) == Folded(Trimmed(content)) = Folded(expected)

\* The handler that just ran was on_message for a user it found Pending.
RepliedWhilePending == last.op = "on_message" /\ last.status = "pending"

\* The user's row says verified today.
VerifiedToday(user) ==
    /\ HasRow(user)
    /\ user_verifications[user] =
           [verified_date |-> UtcToday, pending_affirmation |-> NULL]

\* C3 as claimed: when a user in state Pending(expected) sends a reply that,
\* trimmed and lower-cased, equals expected lower-cased, the user's record
\* becomes verified_date = today, pending_challenge = null; a reply that differs
\* after trimming and case-folding does not produce this transition.
C3_MatchVerifies ==
    RepliedWhilePending =>
        IF SameAffirmation(last.content, last.expected)
        THEN VerifiedToday(last.user)
        ELSE ~VerifiedToday(last.user)

\* What a reply handled for a user found Pending ends with.
ReplyOutcome ==
    RepliedWhilePending =>
        /\ last.matched <=> SameAffirmation(last.content, last.expected)
        /\ (last.matched /\ last.persisted) => VerifiedToday(last.user)
        /\ (last.matched /\ ~last.persisted) =>
               /\ PendingToday(last.user)
               /\ user_verifications[last.user].pending_affirmation = last.expected
               /\ last.sent = "error"
        /\ ~last.matched =>
               /\ PendingToday(last.user)
               /\ user_verifications[last.user].pending_affirmation = last.expected

\* C3 amended: ... the user's record becomes verified_date = today,
\* pending_challenge = null provided the store's update succeeds; when the update
\* raises the record stays Pending and the user is told of the error, and when
\* the handler's read of the state raises the reply is ignored and the record
\* stays as it is.  A reply that differs after trimming and case-folding never
\* produces the transition.
C3_MatchVerifiesIfStored ==
    [][/\ ReplyOutcome'
       /\ (last'.op = "on_message" /\ last'.status # "pending")
              => user_verifications' = user_verifications]_vars

\* C3 witness: a reply that differs from the phrase in case or in blanks around
\* it was accepted and the row is verified.
C3_Witness ==
    /\ RepliedWhilePending
    /\ last.content # last.expected
    /\ last.matched /\ last.persisted
    /\ VerifiedToday(last.user)

\* The channels of the guilds the user shares with the bot that are gated.
GatedFor(user) ==
    {c \in Channels : get_member(GuildOf(c), user)
                      /\ <<GuildOf(c), c>> \in mindful_channels}

\* C4 as claimed: after a matching reply is accepted and the record marked
\* Verified, the user's lock is removed in every gated channel of every shared
\* guild where the bot holds manage_roles, and is left as it is where the bot
\* lacks it.
C4_UnlockedWherePrivileged ==
    [][(last'.op = "on_message" /\ last'.matched /\ last'.persisted) =>
        \A c \in GatedFor(last'.user) :
            IF manage_roles[c]
            THEN read_message_history'[last'.user][c] # "deny"
            ELSE read_message_history'[last'.user][c] =
                     read_message_history[last'.user][c]]_vars

\* C4 amended: ... the user's lock is removed in every gated channel of every
\* shared guild where the bot holds manage_roles and the calls of the unlock
\* (the guild listing, the read of the guild's gated channels, the permission
\* edit) succeed; where the bot lacks manage_roles or one of these calls fails
\* the lock is left as it is and no retry is made.
C4_UnlockedWhereCallsSucceed ==
    [][(last'.op = "on_message" /\ last'.matched /\ last'.persisted) =>
        \A c \in GatedFor(last'.user) :
            IF manage_roles[c] /\ c \notin last'.unlock_failed
            THEN read_message_history'[last'.user][c] # "deny"
            ELSE read_message_history'[last'.user][c] =
                     read_message_history[last'.user][c]]_vars

\* C4 witness: a verification ended with the lock gone from the channel where
\* the bot has manage_roles and still set in the one where it has not.
C4_Witness ==
    /\ last.op = "on_message" /\ last.matched /\ last.persisted
    /\ last.user = "u1" /\ last.unlock_failed = {}
    /\ manage_roles["c1"] /\ read_message_history["u1"]["c1"] = "inherit"
    /\ ~manage_roles["c2"] /\ read_message_history["u1"]["c2"] = "deny"
    /\ GatedFor("u1") = {"c1", "c2"}

LocalDate == (now - NY_UTC_OFFSET_HOURS) \div 24

LocalMinute == ((now - NY_UTC_OFFSET_HOURS) % 24) * 60

\* now >= today's target instant and the last run was before today.
DueByTheClock ==
    /\ LocalMinute >= TARGET_RESET_HOUR * 60 + TARGET_RESET_MINUTE
    /\ last_reset_run_date < LocalDate

\* C6: a tick of the reset poll performs the bulk clear exactly when now >=
\* today's target instant in the reference timezone and last_run_date < today;
\* from the 'never run' sentinel the first eligible tick fires; and the bulk
\* clear runs successfully at most once per reference-timezone day.
C6_FiresExactlyWhenDue ==
    [][/\ last'.op = "daily_reset_task" =>
            /\ last'.fired <=> DueByTheClock
            /\ (last_reset_run_date = DATE_MIN
                /\ LocalMinute >= TARGET_RESET_HOUR * 60 + TARGET_RESET_MINUTE)
                   => last'.fired
            /\ ~last'.fired => user_verifications' = user_verifications
       /\ runs_today' <= 1]_vars

\* C6 witness: the clear has run once today and a tick after it, still past the
\* target instant, did not fire.
C6_Witness ==
    /\ last.op = "daily_reset_task" /\ ~last.fired
    /\ LocalMinute >= TARGET_RESET_HOUR * 60 + TARGET_RESET_MINUTE
    /\ runs_today = 1
    /\ last_reset_run_date = LocalDate

\* C7 as claimed: when the bulk clear fails on a tick, last_run_date is not
\* updated (so the next tick of the day that meets the condition tries again);
\* last_run_date is set to today only after a clear that succeeded.
C7_FailedClearKeepsRunDate ==
    [][(last'.op = "daily_reset_task" /\ last'.fired /\ last'.db # "ok") =>
           /\ last_reset_run_date' = last_reset_run_date
           /\ DueByTheClock']_vars

\* C8 as claimed: the bulk clear deletes every record whose verified_date differs
\* from the reference-timezone today (the today the scheduler fires on), stale
\* verified and stale pending alike, keeps every record dated today, and returns
\* the number of records deleted.
C8_ClearsByLocalDate ==
    [][(last'.op = "daily_reset_task" /\ last'.fired /\ last'.db = "ok") =>
           LET kept == {u \in DOMAIN user_verifications :
                           user_verifications[u].verified_date = LocalDate}
           IN  /\ DOMAIN user_verifications' = kept
               /\ \A u \in kept : user_verifications'[u] = user_verifications[u]
               /\ last'.cleared = Cardinality(DOMAIN user_verifications \ kept)]_vars

\* C9 as claimed: once the reference-timezone day has rolled over and the reset
\* instant has passed (and the poll has run for the day), a user who was Verified
\* on a previous day resolves to None until a challenge is issued and answered
\* on the new day: whoever resolves to Verified then earned it today.
C9_VerifiedOnlyIfEarnedToday ==
    \A u \in Users :
        (/\ LocalMinute >= TARGET_RESET_HOUR * 60 + TARGET_RESET_MINUTE
         /\ last_reset_run_date = LocalDate
         /\ runs_today = 1
         /\ Resolved(u).status = "verified")
            => completed_on[u] = LocalDate

\* The handler that just ran was on_typing, found the user in state None, wrote
\* the pending row and could not deliver the challenge.
DeliveryFailed ==
    /\ last.op = "on_typing" /\ last.status = "none"
    /\ last.persisted /\ last.dm \in {"forbidden", "error"}

\* C10 as claimed: when delivery of the challenge fails during issuance, the
\* handler ends with the just-written pending record deleted, so that the user
\* resolves to None (and the next activity signal issues a new challenge), while
\* the lock applied on the channel stays applied.
C10_FailedDeliveryDeletes ==
    DeliveryFailed =>
        /\ ~HasRow(last.user)
        /\ Resolved(last.user).status = "none"
        /\ last.lock = "ok" => read_message_history[last.user][last.channel] = "deny"

\* C10 amended: ... the handler then issues the DELETE of the just-written
\* pending record; when that DELETE succeeds the record is gone and the user
\* resolves to None, when it raises the record stays and the user is Pending
\* with no challenge delivered.  In both cases the lock applied on the channel
\* stays applied.
C10_FailedDeliveryDeletesIfStoreUp ==
    DeliveryFailed =>
        /\ last.cleanup \in {"ok", "error"}
        /\ last.cleanup = "ok" =>
               /\ ~HasRow(last.user)
               /\ Resolved(last.user).status = "none"
        /\ last.cleanup = "error" =>
               /\ PendingToday(last.user)
               /\ Resolved(last.user).status = "pending"
        /\ last.lock = "ok" => read_message_history[last.user][last.channel] = "deny"

\* C10 witness: the message was refused, the row is gone, the channel is locked.
C10_Witness ==
    /\ DeliveryFailed
    /\ last.cleanup = "ok" /\ last.lock = "ok"
    /\ ~HasRow(last.user)
    /\ read_message_history[last.user][last.channel] = "deny"

\* The step is a run of on_typing for a user who holds the gating role in a
\* channel that is gated for its guild.
SignalInGatedChannel ==
    /\ last'.op = "on_typing"
    /\ last'.user \in Users
    /\ last'.user \in get_mindful_role(GuildOf(last'.channel))
    /\ <<GuildOf(last'.channel), last'.channel>> \in mindful_channels

\* C11 as claimed: an activity signal in a gated channel from a role holder whose
\* state is Pending re-applies the lock on that channel and does nothing else:
\* the record keeps its verified_date and pending_challenge, no phrase is
\* selected and no out-of-band message (and no notice) is sent.
C11_PendingSignalOnlyRelocks ==
    [][(SignalInGatedChannel /\ Resolved(last'.user).status = "pending") =>
           /\ user_verifications' = user_verifications
           /\ last'.dm = "-" /\ last'.notice = "-"
           /\ last'.status = "pending" => last'.lock \in {"ok", "failed"}
           /\ \A u \in Users, c \in Channels :
                 read_message_history'[u][c] # read_message_history[u][c]
                     => /\ u = last'.user /\ c = last'.channel
                        /\ read_message_history'[u][c] = "deny"]_vars

\* C12 as claimed: an activity signal in a gated channel from a role holder whose
\* state is Verified is a no-op: no lock is applied, the record is unchanged and
\* no challenge or channel notice is sent.
C12_VerifiedSignalIsNoOp ==
    [][(SignalInGatedChannel /\ Resolved(last'.user).status = "verified") =>
           /\ user_verifications' = user_verifications
           /\ read_message_history' = read_message_history
           /\ last'.lock = "-" /\ last'.dm = "-" /\ last'.notice = "-"]_vars

\* C13: an activity signal from a bot, from a user without the gating role, or
\* in a channel that is not in the guild's gated list applies no lock, writes no
\* record and sends no message.
C13_FilteredSignalDoesNothing ==
    [][(/\ last'.op = "on_typing"
        /\ \/ last'.user \in Bots
           \/ last'.user \notin get_mindful_role(GuildOf(last'.channel))
           \/ <<GuildOf(last'.channel), last'.channel>> \notin mindful_channels) =>
           /\ user_verifications' = user_verifications
           /\ read_message_history' = read_message_history
           /\ last'.lock = "-" /\ last'.dm = "-" /\ last'.notice = "-"
           /\ ~last'.persisted]_vars

\* C13 witness: a member without the role typed in a gated channel while having
\* no record; nothing was locked and nothing written.
C13_Witness ==
    /\ last.op = "on_typing" /\ last.user = "u2" /\ last.channel = "c2"
    /\ "u2" \notin get_mindful_role("g2")
    /\ <<"g2", "c2">> \in mindful_channels
    /\ ~HasRow("u2")
    /\ HasRow("u1")
    /\ read_message_history["u2"]["c2"] = "inherit"

\* C14: in every reachable state every record with a non-null pending_challenge
\* has verified_date equal to the day that challenge was issued (the date the
\* store computed at the issuance), and no operation writes a completion date
\* into a record while leaving pending_challenge non-null: after a completion
\* the record's pending_challenge is null.
C14_PendingDateIsIssueDate ==
    /\ \A u \in Users :
          (HasRow(u) /\ user_verifications[u].pending_affirmation # NULL) =>
              /\ issued_on[u] # 0
              /\ user_verifications[u].verified_date = issued_on[u]
    /\ (last.op = "on_message" /\ last.matched /\ last.persisted) =>
          /\ HasRow(last.user)
          /\ user_verifications[last.user].pending_affirmation = NULL

\* C14 witness: one user's challenge of an earlier day is still stored with its
\* day of issuance while another user has just completed theirs.
C14_Witness ==
    \E u \in Users :
        /\ HasRow(u) /\ user_verifications[u].pending_affirmation # NULL
        /\ user_verifications[u].verified_date = issued_on[u]
        /\ issued_on[u] < UtcToday
        /\ last.op = "on_message" /\ last.matched /\ last.persisted
        /\ last.user # u

\* The step is a call of remove_read_lock that passed the tests of its arguments.
RemoveCalled == last'.op = "remove_read_lock" /\ last'.status # "invalid"

C16_LockCallsIdempotent ==
    [][/\ (/\ last.op = "apply_read_lock" /\ last.lock = "ok"
           /\ last'.op = "apply_read_lock"
           /\ last'.user = last.user /\ last'.channel = last.channel)
              => /\ read_message_history' = read_message_history
                 /\ send_messages' = send_messages
                 /\ read_message_history'[last'.user][last'.channel] = "deny"
       /\ (/\ last'.op = "remove_read_lock"
           /\ read_message_history[last'.user][last'.channel] # "deny")
              => /\ read_message_history' = read_message_history
                 /\ send_messages' = send_messages]_vars

\* C16 witness: the lock was applied a second time in a row and is set, and in
\* another channel, where the user has no deny, a moderator's overwrite stands.
C16_Witness ==
    /\ last.op = "apply_read_lock" /\ last.lock = "ok"
    /\ last.user = "u1" /\ last.channel = "c2"
    /\ read_message_history["u1"]["c2"] = "deny"
    /\ read_message_history["u1"]["c1"] = "inherit"
    /\ send_messages["u1"]["c1"] = "deny"

\* C17: apply_lock and remove_lock never raise to their caller, whatever the
\* platform call does (insufficient privilege, user or channel gone, transport
\* error, any other error) and whatever kind their arguments are; a failed call
\* leaves the overwrites as they were.
C17_LockCallsNeverRaise ==
    [][last'.op \in {"apply_read_lock", "remove_read_lock"} =>
        /\ ~last'.raised
        /\ last'.lock # "ok" => /\ read_message_history' = read_message_history
                                /\ send_messages' = send_messages]_vars

\* C17 witness: remove_read_lock called with an argument of the wrong kind
\* returned and left the lock it was called on in place.
C17_Witness ==
    /\ last.op = "remove_read_lock" /\ last.status = "invalid" /\ ~last.raised
    /\ last.user = "u1" /\ last.channel = "c1"
    /\ read_message_history["u1"]["c1"] = "deny"

\* Both handlers have run to their end after reading state None for the same
\* user, and both wrote their phrase.
BothIssued ==
    /\ \A h \in Handlers :
          /\ tasks.run[h].pc = "done" /\ tasks.run[h].status = "none"
          /\ tasks.run[h].persisted
    /\ \A h, k \in Handlers : tasks.run[h].user = tasks.run[k].user

\* C18 as claimed: when two activity signals for the same user are handled
\* concurrently and both observe None, both issue a challenge and the store ends
\* with a single record for the user holding the phrase written by the last
\* upsert (which alone a reply then has to match).  Stated for the runs in which
\* both upserts went through and a challenge reached the user: the record is
\* there, pending with the last phrase written, or verified by a reply to it.
C18_LastUpsertWins ==
    (/\ BothIssued
     /\ \E h \in Handlers : tasks.run[h].dm = "ok"
     /\ last = Idle) =>
        \A h \in Handlers :
            /\ HasRow(tasks.run[h].user)
            /\ user_verifications[tasks.run[h].user].pending_affirmation
                   \in {tasks.written, NULL}

\* C19: the bulk clear never changes what resolve returns: each user resolves
\* after the clear to what they resolved to with the stale rows still stored.
C19_ClearKeepsResolution ==
    [][last'.op = "daily_reset_task" =>
        \A u \in Users :
            get_user_verification_status_db(user_verifications', u, "ok")
                = get_user_verification_status_db(user_verifications, u, "ok")]_vars

\* C19 witness: the clear deleted a stale row and kept a row of today, whose
\* user is still verified.
C19_Witness ==
    /\ last.op = "daily_reset_task" /\ last.fired /\ last.db = "ok"
    /\ last.cleared >= 1
    /\ \E u \in Users : HasRow(u) /\ Resolved(u).status = "verified"
    /\ \E u \in Users : ~HasRow(u)

\* C20 as claimed: the bulk clear run a second time in the same reference day,
\* no record having been created since the first run, deletes nothing and
\* reports zero.
C20_SecondClearReportsZero ==
    [][(/\ last'.op = "clear_stale_verifications_db" /\ last'.db = "ok"
        /\ runs_today >= 1) =>
           /\ last'.cleared = 0
           /\ user_verifications' = user_verifications]_vars

\* C21: addMindfulChannel is idempotent.  An add of (guild, channel) leaves the
\* row in the table once it has been stored; an add of a row that is there
\* already changes nothing and is answered as added whenever the statement ran
\* (a conflict is not an error); the rows of other guilds and channels are
\* the same before and after every add.
C21_AddIsIdempotent ==
    [][last'.op = "add_mindful_channel" =>
          LET row == <<last'.guild, last'.channel>>
          IN  /\ mindful_channels' \ {row} = mindful_channels \ {row}
              /\ (row \in mindful_channels \/ last'.persisted) =>
                     row \in mindful_channels'
              /\ row \in mindful_channels =>
                     /\ mindful_channels' = mindful_channels
                     /\ last'.db = "ok" => last'.sent = "added"
              /\ Cardinality({r \in mindful_channels' : r = row}) <= 1]_vars

\* C21 witness: c3 is added to the list of g1 a second time, and the command
\* answers that it was added.
C21_Witness ==
    /\ last.op = "add_mindful_channel"
    /\ last.channel = "c3"
    /\ last.status = "present"
    /\ last.sent = "added"
    /\ {r \in mindful_channels : r[2] = "c3"} = {<<"g1", "c3">>}

\* The members of the guild's role who have an overwrite.
RoleMembers(guild) == get_mindful_role(guild) \cap Users

\* C22: removeMindfulChannel on a channel that is in the guild's list deletes
\* its row and, when the bot has manage_roles in the channel, leaves no member
\* of the role locked in it; on a channel that is not in the list it changes
\* neither the table nor a lock.
C22_RemoveDeletesAndUnlocks ==
    [][last'.op = "remove_mindful_channel" =>
          LET row == <<last'.guild, last'.channel>>
          IN  IF row \in mindful_channels
              THEN /\ row \notin mindful_channels'
                   /\ manage_roles[last'.channel] =>
                          \A u \in RoleMembers(last'.guild) :
                              read_message_history'[u][last'.channel] # "deny"
              ELSE UNCHANGED <<mindful_channels, read_message_history>>]_vars

\* C22 amended: the command deletes the row when its read of the list finds the
\* channel and the DELETE runs, and then, when the confirmation was sent and the
\* bot has manage_roles in the channel, every member of the role is unlocked in
\* the channel except those whose permission call failed.  When the channel is
\* not in the list, or the read or the DELETE raises, nothing changes.  No other
\* row, no lock in another channel and no lock of a member without the role is
\* ever changed.
C22_RemoveDeletesAndUnlocksIfCallsSucceed ==
    [][last'.op = "remove_mindful_channel" =>
          LET row == <<last'.guild, last'.channel>>
              channel == last'.channel
          IN  /\ IF channel \in last'.listed /\ last'.persisted
                 THEN /\ row \in mindful_channels
                      /\ mindful_channels' = mindful_channels \ {row}
                      /\ (~last'.raised /\ manage_roles[channel]) =>
                             \A u \in RoleMembers(last'.guild) \ last'.unlock_failed :
                                 read_message_history'[u][channel] # "deny"
                 ELSE UNCHANGED <<mindful_channels, read_message_history>>
              /\ row \notin mindful_channels =>
                     UNCHANGED <<mindful_channels, read_message_history>>
              /\ \A u \in Users, c \in Channels :
                     (c # channel \/ u \notin RoleMembers(last'.guild)) =>
                         read_message_history'[u][c] = read_message_history[u][c]]_vars

\* C22 witness: c2 was removed from the list of g2; u1, who holds the role and
\* was locked in c2, is unlocked, and u2, a member without the role, is still
\* locked there.
C22_Witness ==
    /\ last.op = "remove_mindful_channel"
    /\ last.channel = "c2"
    /\ last.persisted
    /\ last.unlocked = {"u1"}
    /\ <<"g2", "c2">> \notin mindful_channels
    /\ read_message_history["u1"]["c2"] = "inherit"
    /\ read_message_history["u2"]["c2"] = "deny"

\* The configured channels of a guild that still resolve to a channel.
Resolvable(guild) ==
    {c \in text_channels : <<guild, c>> \in mindful_channels}

\* C23: after listMindfulChannels the guild's rows are the previously
\* configured channels that still resolve.  Every resolvable one is kept,
\* however the command ends; every other one is pruned when the command read
\* the list and returned; the rows of other guilds are unchanged; and the table
\* is not modified when every configured channel resolves.
C23_ListKeepsTheResolvable ==
    [][last'.op = "list_mindful_channels" =>
          LET guild == last'.guild
          IN  /\ \A c \in Resolvable(guild) : <<guild, c>> \in mindful_channels'
              /\ (last'.listed # {} /\ ~last'.raised) =>
                     {r \in mindful_channels' : r[1] = guild} =
                         {<<guild, c>> : c \in Resolvable(guild)}
              /\ {r \in mindful_channels' : r[1] # guild} =
                     {r \in mindful_channels : r[1] # guild}
              /\ (\A r \in mindful_channels : r[1] = guild => r[2] \in text_channels)
                     => mindful_channels' = mindful_channels]_vars

\* C24: a user who resolves to Verified keeps resolving to Verified for the rest
\* of the day, whichever handler takes the next step: no step of a signal
\* handler, a reply handler or the reset replaces or deletes the verified row.
C24_VerifiedStaysVerified ==
    [][\A u \in Users :
          (Resolved(u).status = "verified" /\ UtcToday' = UtcToday) =>
              Resolved(u)'.status = "verified"]_vars

\* No handler is in progress.
Quiescent ==
    /\ last = Idle
    /\ \A h \in Handlers : tasks.run[h].pc \in {"idle", "done"}
    /\ tasks.reply.pc \in {"idle", "done"}

\* The channels in which on_message unlocks the user: mindful channels of a
\* guild the user is a member of, where the bot has manage_roles.
UnlockableFor(user) ==
    {c \in Channels : /\ <<GuildOf(c), c>> \in mindful_channels
                      /\ get_member(GuildOf(c), user)
                      /\ manage_roles[c]}

\* C25: when no handler is in progress, a user who resolves to Verified is not
\* denied read_message_history in any mindful channel where the bot has
\* manage_roles (the channels whose unlock was cut short by a failed call of
\* the reply handler are left out of the statement).
C25_QuiescentVerifiedIsUnlocked ==
    Quiescent =>
        \A u \in Users :
            Resolved(u).status = "verified" =>
                \A c \in UnlockableFor(u) \ tasks.reply.unlock_failed :
                    read_message_history[u][c] # "deny"

\* C26: when the reply handler has accepted a reply, run its unlock loop and
\* sent the confirmation, the user has a row with today's date and no pending
\* text, whatever the other handlers did since the handler read the status.
C26_ConfirmedMeansVerified ==
    [][(tasks.reply.pc = "unlock" /\ tasks'.reply.pc = "done"
        /\ tasks'.reply.sent = "confirm") =>
           VerifiedToday(tasks.reply.user)']_vars

\* C27: a signal of a user whose row is verified for today, handled while the
\* read of the status raises (the handler did not resolve 'verified'), neither
\* denies them read_message_history in the channel nor replaces their row.
C27_ReadFailureSparesVerified ==
    [][(SignalInGatedChannel /\ VerifiedToday(last'.user)
        /\ last'.status # "verified") =>
           /\ read_message_history'[last'.user][last'.channel] =
                  read_message_history[last'.user][last'.channel]
           /\ last'.user \in DOMAIN user_verifications'
           /\ user_verifications'[last'.user] = user_verifications[last'.user]]_vars

\* C28: listMindfulChannels removes no row of a channel that still exists.
\* When the command has ended, every row that its DELETE removed and whose
\* channel exists is in the table, whatever addMindfulChannel did meanwhile.
C28_ListLosesNoLiveChannel ==
    tasks.list.pc = "done" =>
        \A r \in tasks.list.deleted :
            r[2] \in text_channels => r \in mindful_channels

\* C29: a challenge issued on day D verifies the user for day D only.  When the
\* UTC date has changed since the reply handler resolved Pending, its update
\* does not leave the user with a row of the new date and no pending text.
C29_VerifiesForTheDayOfIssue ==
    [][(tasks.reply.pc = "complete" /\ tasks'.reply.pc # "complete"
        /\ tasks.reply.resolved_on # UtcToday) =>
           ~VerifiedToday(tasks.reply.user)']_vars

\* C30: when the upsert of the pending row fails during the issuance for a user
\* who resolves to None, no direct message is sent and no row is written: the
\* table is as it was, the user still resolves to None (the next signal issues
\* again), and the lock the handler applied in the channel stays.
C30_FailedPersistLeavesNone ==
    [][(SignalInGatedChannel /\ Resolved(last'.user).status = "none"
        /\ last'.status = "none" /\ ~last'.persisted) =>
           /\ last'.dm = "-"
           /\ user_verifications' = user_verifications
           /\ get_user_verification_status_db(
                  user_verifications', last'.user, "ok").status = "none"
           /\ read_message_history'[last'.user][last'.channel] =
                  IF last'.lock = "ok" THEN "deny"
                  ELSE read_message_history[last'.user][last'.channel]]_vars

\* C30 witness: the handler locked c1 for u1, the upsert failed, no message was
\* sent, and u1 has no row.
C30_Witness ==
    /\ last.op = "on_typing"
    /\ last.user = "u1" /\ last.channel = "c1"
    /\ last.status = "none"
    /\ last.lock = "ok"
    /\ ~last.persisted
    /\ last.dm = "-"
    /\ ~HasRow("u1")
    /\ read_message_history["u1"]["c1"] = "deny"

====
